---- MODULE Spec2Model ----
(***************************************************************************)
(* A model of the-stack-v2-packager: the parquet-to-JSON materializer      *)
(* (io.rs), the encoding resolver decode_to_string (io.rs) and the chunked  *)
(* gzip packager process_parquet_file2 (main.rs).                           *)
(*                                                                         *)
(* TLC integers are 32-bit signed, so a u32 is kept as its four            *)
(* little-endian bytes (what to_le_bytes writes) and a usize length as a   *)
(* pair of base-2^16 limbs.                                                *)
(***************************************************************************)
EXTENDS Integers, Sequences, FiniteSets, TLC

(* ------------------------------ bounds -------------------------------- *)

\* Longest blob (in bytes) handed to decode_to_string.
MaxBlobLen == 2
\* Encoding names are tried with up to this many leading letters lowercased.
MaxLowered == 2
\* Most columns of a parquet schema.
MaxCols == 2
\* Most rows of a parquet file given to load_parquet_as_json_parallel.
MaxLoadRows == 5
\* Rows per record batch: with_batch_size(1024), scaled down.
BatchSize == 2
\* Most rows of a run whose rows are processed one worker step at a time.
MaxRows == 3
\* Largest --max-lines of such a run.
MaxLines == 3
\* Most rows, and largest --max-lines, of a run with long chunks.
MaxBulkRows == 100
\* Most rows of a chunk whose trailer size is computed from line lengths.
MaxSizeRows == 3

(* ------------------------- bytes, u32, CRC-32 -------------------------- *)

RECURSIVE XorBits(_, _, _)
XorBits(a, b, n) ==
    IF n = 0 THEN 0
    ELSE (((a % 2) + (b % 2)) % 2) + 2 * XorBits(a \div 2, b \div 2, n - 1)

RECURSIVE NibRow(_, _)
NibRow(a, b) == IF b >= 16 THEN <<>> ELSE <<XorBits(a, b, 4)>> \o NibRow(a, b + 1)

RECURSIVE NibRows(_)
NibRows(a) == IF a >= 16 THEN <<>> ELSE <<NibRow(a, 0)>> \o NibRows(a + 1)

\* XOR of two 4-bit values, tabulated once.
XorNib == NibRows(0)

Xor8(a, b) ==
    16 * XorNib[(a \div 16) + 1][(b \div 16) + 1] + XorNib[(a % 16) + 1][(b % 16) + 1]

\* A u32 is <<b0, b1, b2, b3>>, least significant byte first.
Xor32(a, b) == <<Xor8(a[1], b[1]), Xor8(a[2], b[2]), Xor8(a[3], b[3]), Xor8(a[4], b[4])>>

Shr1(a) ==
    << (a[1] \div 2) + 128 * (a[2] % 2),
       (a[2] \div 2) + 128 * (a[3] % 2),
       (a[3] \div 2) + 128 * (a[4] % 2),
       (a[4] \div 2) >>

Shr8(a) == <<a[2], a[3], a[4], 0>>

\* The reflected CRC-32 (IEEE) polynomial 0xEDB88320.
CRC_POLY == <<32, 131, 184, 237>>

RECURSIVE TableEntry(_, _)
TableEntry(c, k) ==
    IF k = 0 THEN c
    ELSE TableEntry(IF c[1] % 2 = 1 THEN Xor32(Shr1(c), CRC_POLY) ELSE Shr1(c), k - 1)

RECURSIVE CrcEntries(_, _)
CrcEntries(lo, hi) ==
    IF lo = hi THEN <<TableEntry(<<lo, 0, 0, 0>>, 8)>>
    ELSE LET mid == (lo + hi) \div 2 IN CrcEntries(lo, mid) \o CrcEntries(mid + 1, hi)

CRC_TABLE == CrcEntries(0, 255)

U32_ZERO == <<0, 0, 0, 0>>
U32_ONES == <<255, 255, 255, 255>>

\* crc32fast::Hasher: new() starts from CRC 0, update() continues it,
\* finalize() returns it.  The state kept here is the finalized value.
HasherNew == U32_ZERO

\* The register after bytes lo..hi of a buffer, one table step a byte.  The
\* left half's register is computed before the right half starts.
RECURSIVE CrcFeedRange(_, _, _, _)
CrcFeedRange(reg, bytes, lo, hi) ==
    IF lo > hi THEN reg
    ELSE IF lo = hi THEN Xor32(CRC_TABLE[Xor8(reg[1], bytes[lo]) + 1], Shr8(reg))
    ELSE LET mid  == (lo + hi) \div 2
             left == CrcFeedRange(reg, bytes, lo, mid)
         IN  IF left[1] >= 0 THEN CrcFeedRange(left, bytes, mid + 1, hi) ELSE left

CrcFeed(reg, bytes) == CrcFeedRange(reg, bytes, 1, Len(bytes))

HasherUpdate(h, bytes) == Xor32(CrcFeed(Xor32(h, U32_ONES), bytes), U32_ONES)

HasherFinalize(h) == h

\* u32::to_le_bytes
ToLeBytes(u) == u

(* ----------------------- lengths and u32 sizes ------------------------- *)

LIMB == 65536

\* A usize length is [hi, lo] = hi * 2^16 + lo with lo < 2^16.
UsizeOf(n) == [hi |-> n \div LIMB, lo |-> n % LIMB]

\* `len as u32`: the low 32 bits.
AsU32(len) == [hi |-> len.hi % LIMB, lo |-> len.lo]

\* u32 + u32: the wrapped sum and whether it overflowed.
AddU32(a, b) ==
    LET lo == a.lo + b.lo
        hi == a.hi + b.hi + (lo \div LIMB)
    IN  [val |-> [hi |-> hi % LIMB, lo |-> lo % LIMB], overflow |-> hi >= LIMB]

\* u32::to_le_bytes of a size.
SizeLeBytes(s) == <<s.lo % 256, s.lo \div 256, s.hi % 256, s.hi \div 256>>

(* --------------------------- encoding names --------------------------- *)

LOWER == <<"a","b","c","d","e","f","g","h","i","j","k","l","m",
           "n","o","p","q","r","s","t","u","v","w","x","y","z">>
UPPER == <<"A","B","C","D","E","F","G","H","I","J","K","L","M",
           "N","O","P","Q","R","S","T","U","V","W","X","Y","Z">>

UpperChar(c) == IF \E i \in 1..26 : LOWER[i] = c
                THEN UPPER[CHOOSE i \in 1..26 : LOWER[i] = c] ELSE c
LowerChar(c) == IF \E i \in 1..26 : UPPER[i] = c
                THEN LOWER[CHOOSE i \in 1..26 : UPPER[i] = c] ELSE c

\* str::to_uppercase on the names the model uses (ASCII).
ToUppercase(name) == [i \in 1..Len(name) |-> UpperChar(name[i])]
ToLowercase(name) == [i \in 1..Len(name) |-> LowerChar(name[i])]

IBM852 == <<"I","B","M","8","5","2">>
IBM855 == <<"I","B","M","8","5","5">>
IBM866 == <<"I","B","M","8","6","6">>

\* The arms of the match on encoding_name.to_uppercase(), in source order.
MATCH_ARMS == <<
    [labels |-> {<<"B","I","G","5">>},
     encoding |-> "BIG5"],
    [labels |-> {<<"E","U","C","-","J","P">>},
     encoding |-> "EUC_JP"],
    [labels |-> {<<"G","B","1","8","0","3","0">>},
     encoding |-> "GB18030"],
    [labels |-> {<<"I","S","O","-","8","8","5","9","-","1">>},
     encoding |-> "WINDOWS_1252"],
    [labels |-> {<<"I","S","O","-","8","8","5","9","-","2">>,
                  <<"I","S","O","8","8","5","9","-","2">>},
     encoding |-> "ISO_8859_2"],
    [labels |-> {<<"I","S","O","-","8","8","5","9","-","3">>,
                  <<"I","S","O","8","8","5","9","-","3">>},
     encoding |-> "ISO_8859_3"],
    [labels |-> {<<"I","S","O","-","8","8","5","9","-","4">>,
                  <<"I","S","O","8","8","5","9","-","4">>},
     encoding |-> "ISO_8859_4"],
    [labels |-> {<<"I","S","O","-","8","8","5","9","-","5">>,
                  <<"I","S","O","8","8","5","9","-","5">>},
     encoding |-> "ISO_8859_5"],
    [labels |-> {<<"I","S","O","-","8","8","5","9","-","6">>,
                  <<"I","S","O","8","8","5","9","-","6">>},
     encoding |-> "ISO_8859_6"],
    [labels |-> {<<"I","S","O","-","8","8","5","9","-","7">>,
                  <<"I","S","O","8","8","5","9","-","7">>},
     encoding |-> "ISO_8859_7"],
    [labels |-> {<<"I","S","O","-","8","8","5","9","-","8">>,
                  <<"I","S","O","8","8","5","9","-","8">>},
     encoding |-> "ISO_8859_8"],
    [labels |-> {<<"I","S","O","-","8","8","5","9","-","9">>,
                  <<"I","S","O","8","8","5","9","-","9">>},
     encoding |-> "WINDOWS_1254"],
    [labels |-> {<<"I","S","O","-","8","8","5","9","-","1","0">>,
                  <<"I","S","O","8","8","5","9","-","1","0">>},
     encoding |-> "ISO_8859_10"],
    [labels |-> {<<"I","S","O","-","8","8","5","9","-","1","1">>,
                  <<"I","S","O","8","8","5","9","-","1","1">>},
     encoding |-> "WINDOWS_874"],
    [labels |-> {<<"I","S","O","-","8","8","5","9","-","1","3">>,
                  <<"I","S","O","8","8","5","9","-","1","3">>},
     encoding |-> "ISO_8859_13"],
    [labels |-> {<<"I","S","O","-","8","8","5","9","-","1","4">>,
                  <<"I","S","O","8","8","5","9","-","1","4">>},
     encoding |-> "ISO_8859_14"],
    [labels |-> {<<"I","S","O","-","8","8","5","9","-","1","5">>,
                  <<"I","S","O","8","8","5","9","-","1","5">>},
     encoding |-> "ISO_8859_15"],
    [labels |-> {<<"I","S","O","-","8","8","5","9","-","1","6">>,
                  <<"I","S","O","8","8","5","9","-","1","6">>},
     encoding |-> "ISO_8859_16"],
    [labels |-> {<<"K","O","I","8","-","R">>,
                  <<"K","O","I","8","R">>},
     encoding |-> "KOI8_R"],
    [labels |-> {<<"K","O","I","8","-","U">>,
                  <<"K","O","I","8","U">>},
     encoding |-> "KOI8_U"],
    [labels |-> {<<"M","A","C","I","N","T","O","S","H">>,
                  <<"M","A","C">>},
     encoding |-> "MACINTOSH"],
    [labels |-> {<<"M","A","C","C","E","N","T","R","A","L","E","U","R","O","P","E">>},
     encoding |-> "WINDOWS_1250"],
    [labels |-> {<<"M","A","C","C","Y","R","I","L","L","I","C">>},
     encoding |-> "X_MAC_CYRILLIC"],
    [labels |-> {<<"S","H","I","F","T","_","J","I","S">>},
     encoding |-> "SHIFT_JIS"],
    [labels |-> {<<"T","I","S","-","6","2","0">>},
     encoding |-> "WINDOWS_874"],
    [labels |-> {<<"U","H","C">>},
     encoding |-> "EUC_KR"],
    [labels |-> {<<"U","T","F","-","1","6">>},
     encoding |-> "UTF_16BE"],
    [labels |-> {<<"W","I","N","D","O","W","S","-","8","7","4">>,
                  <<"C","P","8","7","4">>},
     encoding |-> "WINDOWS_874"],
    [labels |-> {<<"W","I","N","D","O","W","S","-","1","2","5","0">>,
                  <<"C","P","1","2","5","0">>},
     encoding |-> "WINDOWS_1250"],
    [labels |-> {<<"W","I","N","D","O","W","S","-","1","2","5","1">>,
                  <<"C","P","1","2","5","1">>},
     encoding |-> "WINDOWS_1251"],
    [labels |-> {<<"W","I","N","D","O","W","S","-","1","2","5","2">>,
                  <<"C","P","1","2","5","2">>},
     encoding |-> "WINDOWS_1252"],
    [labels |-> {<<"W","I","N","D","O","W","S","-","1","2","5","3">>,
                  <<"C","P","1","2","5","3">>},
     encoding |-> "WINDOWS_1253"],
    [labels |-> {<<"W","I","N","D","O","W","S","-","1","2","5","4">>,
                  <<"C","P","1","2","5","4">>},
     encoding |-> "WINDOWS_1254"],
    [labels |-> {<<"W","I","N","D","O","W","S","-","1","2","5","5">>,
                  <<"C","P","1","2","5","5">>},
     encoding |-> "WINDOWS_1255"],
    [labels |-> {<<"W","I","N","D","O","W","S","-","1","2","5","6">>,
                  <<"C","P","1","2","5","6">>},
     encoding |-> "WINDOWS_1256"],
    [labels |-> {<<"W","I","N","D","O","W","S","-","1","2","5","7">>,
                  <<"C","P","1","2","5","7">>},
     encoding |-> "WINDOWS_1257"],
    [labels |-> {<<"W","I","N","D","O","W","S","-","1","2","5","8">>,
                  <<"C","P","1","2","5","8">>},
     encoding |-> "WINDOWS_1258"],
    [labels |-> {<<"U","T","F","-","8">>,
                  <<"U","T","F","8">>},
     encoding |-> "UTF_8"]
>>

ArmOf(upper) == CHOOSE i \in 1..Len(MATCH_ARMS) : upper \in MATCH_ARMS[i].labels

(* ------------------- decoders (encoding_rs, oem_cp) -------------------- *)

\* A decoded character is <<kind, a, b>>: <<"U", cp, 0>> is the code point
\* cp; any other kind names the table that maps the byte(s) a, b to a
\* character whose code point the model does not need.
Cp(n) == <<"U", n, 0>>
REPLACEMENT == Cp(65533)

SINGLE_BYTE ==
    {"WINDOWS_1250", "WINDOWS_1251", "WINDOWS_1252", "WINDOWS_1253", "WINDOWS_1254",
     "WINDOWS_1255", "WINDOWS_1256", "WINDOWS_1257", "WINDOWS_1258", "WINDOWS_874",
     "ISO_8859_2", "ISO_8859_3", "ISO_8859_4", "ISO_8859_5", "ISO_8859_6",
     "ISO_8859_7", "ISO_8859_8", "ISO_8859_10", "ISO_8859_13", "ISO_8859_14",
     "ISO_8859_15", "ISO_8859_16", "KOI8_R", "KOI8_U", "MACINTOSH", "X_MAC_CYRILLIC"}

DOUBLE_BYTE == {"BIG5", "EUC_JP", "EUC_KR", "GB18030"}

\* Bytes with no character in the single-byte index of the encoding.
Unmapped(enc) ==
    CASE enc = "ISO_8859_3"   -> {165, 174, 190, 195, 208, 227, 240}
      [] enc = "ISO_8859_6"   -> (161..255) \ ({164, 172, 173, 187, 191} \cup (193..218) \cup (224..242))
      [] enc = "ISO_8859_7"   -> {174, 210, 255}
      [] enc = "ISO_8859_8"   -> {161, 251, 252, 255} \cup (191..222)
      [] enc = "WINDOWS_874"  -> (219..222) \cup (252..255)
      [] enc = "WINDOWS_1253" -> {170, 210, 255}
      [] enc = "WINDOWS_1255" -> {251, 252, 255} \cup (217..223)
      [] enc = "WINDOWS_1257" -> {161, 165}
      [] OTHER -> {}

\* One decoding step: the character, the bytes it used, whether it is a
\* replacement for malformed input.
Step(ch, used, bad) == [ch |-> ch, used |-> used, bad |-> bad]
Malformed(used) == Step(REPLACEMENT, used, TRUE)

SingleByteStep(enc, b) ==
    LET c == b[1] IN
    IF c < 128 THEN Step(Cp(c), 1, FALSE)
    ELSE IF c \in Unmapped(enc) THEN Malformed(1)
    ELSE IF enc = "WINDOWS_1252" /\ c >= 160 THEN Step(Cp(c), 1, FALSE)
    ELSE Step(<<enc, c, 0>>, 1, FALSE)

IsCont(c) == c \in 128..191

Utf8Step(b) ==
    LET c == b[1]
        n == Len(b) IN
    IF c < 128 THEN Step(Cp(c), 1, FALSE)
    ELSE IF c \in 194..223 /\ n >= 2 /\ IsCont(b[2])
         THEN Step(Cp((c - 192) * 64 + (b[2] - 128)), 2, FALSE)
    ELSE IF c \in 224..239 /\ n >= 3 /\ IsCont(b[2]) /\ IsCont(b[3])
            /\ (c = 224 => b[2] >= 160) /\ (c = 237 => b[2] <= 159)
         THEN Step(Cp((c - 224) * 4096 + (b[2] - 128) * 64 + (b[3] - 128)), 3, FALSE)
    ELSE IF c \in 240..244 /\ n >= 4 /\ IsCont(b[2]) /\ IsCont(b[3]) /\ IsCont(b[4])
            /\ (c = 240 => b[2] >= 144) /\ (c = 244 => b[2] <= 143)
         THEN Step(Cp((c - 240) * 262144 + (b[2] - 128) * 4096
                      + (b[3] - 128) * 64 + (b[4] - 128)), 4, FALSE)
    ELSE Malformed(1)

Utf16Unit(b, i, be) == IF be THEN b[i] * 256 + b[i + 1] ELSE b[i + 1] * 256 + b[i]

Utf16Step(b, be) ==
    IF Len(b) < 2 THEN Malformed(1)
    ELSE LET u == Utf16Unit(b, 1, be) IN
         IF u \in 55296..56319
         THEN IF Len(b) >= 4 /\ Utf16Unit(b, 3, be) \in 56320..57343
              THEN Step(Cp(65536 + (u - 55296) * 1024 + (Utf16Unit(b, 3, be) - 56320)), 4, FALSE)
              ELSE Malformed(2)
         ELSE IF u \in 56320..57343 THEN Malformed(2)
         ELSE Step(Cp(u), 2, FALSE)

LeadBytes(enc) == IF enc = "EUC_JP" THEN 161..254 ELSE 129..254

TrailBytes(enc) ==
    CASE enc = "EUC_JP"  -> 161..254
      [] enc = "EUC_KR"  -> 65..254
      [] enc = "BIG5"    -> (64..126) \cup (161..254)
      [] enc = "GB18030" -> (64..126) \cup (128..254)

\* The two-byte forms of the legacy CJK encodings; every pair in range is
\* taken to be assigned.  A byte that cannot follow the lead is not consumed
\* when it is ASCII.
DoubleByteStep(enc, b) ==
    LET c == b[1] IN
    IF c < 128 THEN Step(Cp(c), 1, FALSE)
    ELSE IF c \notin LeadBytes(enc) THEN Malformed(1)
    ELSE IF Len(b) < 2 THEN Malformed(1)
    ELSE IF b[2] \in TrailBytes(enc) THEN Step(<<enc, c, b[2]>>, 2, FALSE)
    ELSE Malformed(IF b[2] < 128 THEN 1 ELSE 2)

ShiftJisStep(b) ==
    LET c == b[1] IN
    IF c <= 128 THEN Step(Cp(c), 1, FALSE)
    ELSE IF c \in 161..223 THEN Step(Cp(65377 - 161 + c), 1, FALSE)
    ELSE IF c \notin ((129..159) \cup (224..252)) THEN Malformed(1)
    ELSE IF Len(b) < 2 THEN Malformed(1)
    ELSE IF b[2] \in ((64..126) \cup (128..252)) THEN Step(<<"SHIFT_JIS", c, b[2]>>, 2, FALSE)
    ELSE Malformed(IF b[2] < 128 THEN 1 ELSE 2)

DecoderStep(enc, b) ==
    CASE enc = "UTF_8"           -> Utf8Step(b)
      [] enc = "UTF_16BE"        -> Utf16Step(b, TRUE)
      [] enc = "UTF_16LE"        -> Utf16Step(b, FALSE)
      [] enc = "SHIFT_JIS"       -> ShiftJisStep(b)
      [] enc \in DOUBLE_BYTE     -> DoubleByteStep(enc, b)
      [] enc \in SINGLE_BYTE     -> SingleByteStep(enc, b)

\* Encoding::decode_without_bom_handling: malformed sequences become U+FFFD
\* and are reported.  `subst` counts the replacements made.
RECURSIVE DecodeWithoutBom(_, _)
DecodeWithoutBom(enc, b) ==
    IF b = <<>> THEN [text |-> <<>>, had_errors |-> FALSE, subst |-> 0]
    ELSE LET s    == DecoderStep(enc, b)
             rest == DecodeWithoutBom(enc, SubSeq(b, s.used + 1, Len(b)))
         IN  [text       |-> <<s.ch>> \o rest.text,
              had_errors |-> s.bad \/ rest.had_errors,
              subst      |-> (IF s.bad THEN 1 ELSE 0) + rest.subst]

StartsWith(b, p) == Len(b) >= Len(p) /\ SubSeq(b, 1, Len(p)) = p

\* Encoding::decode: a byte order mark decides the encoding and is removed.
EncodingDecode(enc, b) ==
    IF StartsWith(b, <<239, 187, 191>>) THEN DecodeWithoutBom("UTF_8", SubSeq(b, 4, Len(b)))
    ELSE IF StartsWith(b, <<255, 254>>) THEN DecodeWithoutBom("UTF_16LE", SubSeq(b, 3, Len(b)))
    ELSE IF StartsWith(b, <<254, 255>>) THEN DecodeWithoutBom("UTF_16BE", SubSeq(b, 3, Len(b)))
    ELSE DecodeWithoutBom(enc, b)

\* oem_cp::decode_string_complete_table: every byte has a character.
DecodeStringCompleteTable(b, table) ==
    [i \in 1..Len(b) |-> IF b[i] < 128 THEN Cp(b[i]) ELSE <<table, b[i], 0>>]

(* --------------------------- decode_to_string -------------------------- *)

OkString(text, decoder, subst) ==
    [ok |-> TRUE, text |-> text, err |-> "", decoder |-> decoder, subst |-> subst]
ErrDecode(kind) ==
    [ok |-> FALSE, text |-> <<>>, err |-> kind, decoder |-> "", subst |-> 0]

\* decode_to_string returning the decoder's output whatever it reported.
decode_to_string_lossy(bytes, encoding_name) ==
    IF encoding_name \in {IBM852, IBM855, IBM866}
    THEN OkString(DecodeStringCompleteTable(bytes, "CP"), "CP", 0)
    ELSE LET upper == ToUppercase(encoding_name) IN
         IF ~ \E i \in 1..Len(MATCH_ARMS) : upper \in MATCH_ARMS[i].labels
         THEN ErrDecode("BAD ENCODING")
         ELSE LET encoding == MATCH_ARMS[ArmOf(upper)].encoding
                  d        == EncodingDecode(encoding, bytes)
              IN  OkString(d.text, encoding, d.subst)

\* The result also names the decoder that was chosen and how many
\* replacement characters the returned string holds.
decode_to_string(bytes, encoding_name) ==
    IF encoding_name = IBM852
    THEN OkString(DecodeStringCompleteTable(bytes, "CP852"), "CP852", 0)
    ELSE IF encoding_name = IBM855
    THEN OkString(DecodeStringCompleteTable(bytes, "CP855"), "CP855", 0)
    ELSE IF encoding_name = IBM866
    THEN OkString(DecodeStringCompleteTable(bytes, "CP866"), "CP866", 0)
    ELSE LET upper == ToUppercase(encoding_name) IN
         IF ~ \E i \in 1..Len(MATCH_ARMS) : upper \in MATCH_ARMS[i].labels
         THEN ErrDecode("BAD ENCODING")
         ELSE LET encoding == MATCH_ARMS[ArmOf(upper)].encoding
                  d        == EncodingDecode(encoding, bytes)
              IN  IF d.had_errors THEN ErrDecode("Failed to decode bytes")
                  ELSE OkString(d.text, encoding, d.subst)

(* ------------- columnar batches to JSON rows (io.rs) ------------------- *)

\* A DataType is <<kind, parameter>>.
DATA_TYPES ==
    { <<"Utf8", "">>, <<"Int64", "">>, <<"Boolean", "">>, <<"Float64", "">>,
      <<"List", "Utf8">>, <<"List", "Int64">>,
      <<"Timestamp", "Nanosecond">>, <<"Timestamp", "Microsecond">> }

\* The concrete arrow array behind a column of each type.
ArrayOf(data_type) ==
    CASE data_type[1] = "Utf8"      -> "StringArray"
      [] data_type[1] = "Int64"     -> "Int64Array"
      [] data_type[1] = "Boolean"   -> "BooleanArray"
      [] data_type[1] = "Float64"   -> "Float64Array"
      [] data_type[1] = "List"      -> "ListArray"
      [] data_type[1] = "Timestamp" ->
            IF data_type[2] = "Nanosecond" THEN "TimestampNanosecondArray"
            ELSE "TimestampMicrosecondArray"

\* A JsonValue is <<tag, payload>>, the payload a sequence of integers.
JsonNull      == <<"null", <<>>>>
JsonString(v) == <<"string", <<v>>>>
JsonNumber(v) == <<"number", <<v>>>>
JsonBool(v)   == <<"bool", <<v>>>>
JsonArray(vs) == <<"array", vs>>

ConvOk(value) == [kind |-> "Ok", value |-> value]
ConvErr       == [kind |-> "Err", value |-> JsonNull]
ConvPanic     == [kind |-> "Panic", value |-> JsonNull]

\* The strings of a list cell that are not null, in order.
RECURSIVE FilterNonNull(_)
FilterNonNull(items) ==
    IF items = <<>> THEN <<>>
    ELSE (IF Head(items).null THEN <<>> ELSE <<Head(items).v>>) \o FilterNonNull(Tail(items))

\* column: [data_type, array, cells]; a cell: [null, v, items].
convert_column_to_json(column, row_idx) ==
    LET cell == column.cells[row_idx + 1]
        dt   == column.data_type
    IN
    CASE dt[1] = "Utf8" ->
            IF column.array # "StringArray" THEN ConvPanic
            ELSE ConvOk(IF cell.null THEN JsonNull ELSE JsonString(cell.v))
      [] dt[1] = "Int64" ->
            IF column.array # "Int64Array" THEN ConvPanic
            ELSE ConvOk(IF cell.null THEN JsonNull ELSE JsonNumber(cell.v))
      [] dt[1] = "Boolean" ->
            IF column.array # "BooleanArray" THEN ConvPanic
            ELSE ConvOk(IF cell.null THEN JsonNull ELSE JsonBool(cell.v % 2))
      [] dt[1] = "List" /\ dt[2] = "Utf8" ->
            IF column.array # "ListArray" THEN ConvPanic
            ELSE IF cell.null THEN ConvOk(JsonNull)
            ELSE ConvOk(JsonArray(FilterNonNull(cell.items)))
      [] dt[1] = "Timestamp" ->
            IF column.array # "TimestampNanosecondArray" THEN ConvPanic
            ELSE ConvOk(IF cell.null THEN JsonNull ELSE JsonNumber(cell.v))
      [] OTHER -> ConvErr

ColName(col_idx) == <<"col", col_idx>>

MapInsert(map, key, value) ==
    [k \in (DOMAIN map) \cup {key} |-> IF k = key THEN value ELSE map[k]]

EmptyMap == [k \in {} |-> JsonNull]

\* The loop over batch.columns() for one row: the object built, or a panic.
RECURSIVE RowObject(_, _, _, _)
RowObject(batch, row_idx, col_idx, acc) ==
    IF col_idx > Len(batch.columns) THEN [panic |-> FALSE, obj |-> acc]
    ELSE LET r == convert_column_to_json(batch.columns[col_idx], row_idx) IN
         IF r.kind = "Panic" THEN [panic |-> TRUE, obj |-> acc]
         ELSE RowObject(batch, row_idx, col_idx + 1,
                        IF r.kind = "Ok" THEN MapInsert(acc, ColName(col_idx), r.value)
                        ELSE acc)

\* The closure of flat_map for one batch: its rows in index order.  Each
\* row carries the (batch, row) pair it was made from.
RECURSIVE BatchRows(_, _)
BatchRows(batch, row_idx) ==
    IF row_idx >= batch.num_rows THEN [st |-> "done", rows |-> <<>>]
    ELSE LET r    == RowObject(batch, row_idx, 1, EmptyMap)
             rest == BatchRows(batch, row_idx + 1)
         IN  IF r.panic \/ rest.st = "panic" THEN [st |-> "panic", rows |-> <<>>]
             ELSE [st |-> "done",
                   rows |-> <<[src |-> <<batch.index, row_idx>>, obj |-> r.obj]>> \o rest.rows]

\* The rows the order-preserving collect hands back in order.
RECURSIVE CollectInCompletionOrder(_, _)
CollectInCompletionOrder(parts, order) ==
    IF order = <<>> THEN <<>>
    ELSE parts[Head(order)].rows \o CollectInCompletionOrder(parts, Tail(order))

\* collect() of the parallel iterator: the batches' rows, in batch order.
RECURSIVE ConcatParts(_, _)
ConcatParts(parts, b) ==
    IF b > Len(parts) THEN <<>> ELSE parts[b].rows \o ConcatParts(parts, b + 1)

CollectParts(parts, order) == ConcatParts(parts, 1)

(* ------------------------------ JSON text ------------------------------ *)

\* The printable ASCII characters, from code 32.
PRINTABLE == <<
    " ", "!", "QUOTATION MARK", "#", "$", "%", "&", "'", "(", ")", "*", "+", ",", "-", ".", "/",
    "0", "1", "2", "3", "4", "5", "6", "7", "8", "9", ":", ";", "<", "=", ">", "?",
    "@", "A", "B", "C", "D", "E", "F", "G", "H", "I", "J", "K", "L", "M", "N", "O",
    "P", "Q", "R", "S", "T", "U", "V", "W", "X", "Y", "Z", "[", "REVERSE SOLIDUS", "]", "^", "_",
    "GRAVE ACCENT", "a", "b", "c", "d", "e", "f", "g", "h", "i", "j", "k", "l", "m", "n", "o",
    "p", "q", "r", "s", "t", "u", "v", "w", "x", "y", "z", "{", "|", "}", "~" >>

AsciiCode(c) == 31 + CHOOSE i \in 1..Len(PRINTABLE) : PRINTABLE[i] = c

\* The bytes of an ASCII string.
AsBytes(str) == [i \in 1..Len(str) |-> AsciiCode(str[i])]

\* The characters of an ASCII string, as decoded text.
AsText(str) == [i \in 1..Len(str) |-> Cp(AsciiCode(str[i]))]

HEX == <<48, 49, 50, 51, 52, 53, 54, 55, 56, 57, 97, 98, 99, 100, 101, 102>>

\* The UTF-8 bytes of a code point.
Utf8Encode(cp) ==
    IF cp < 128 THEN <<cp>>
    ELSE IF cp < 2048 THEN <<192 + (cp \div 64), 128 + (cp % 64)>>
    ELSE IF cp < 65536
         THEN <<224 + (cp \div 4096), 128 + ((cp \div 64) % 64), 128 + (cp % 64)>>
    ELSE <<240 + (cp \div 262144), 128 + ((cp \div 4096) % 64),
           128 + ((cp \div 64) % 64), 128 + (cp % 64)>>

\* serde_json's escaping of one character of a string.  Only characters
\* whose code point is known (kind "U") can be written.
JsonEscape(ch) ==
    LET cp == ch[2] IN
    CASE ch[1] = "U" /\ cp = 34 -> <<92, 34>>
      [] ch[1] = "U" /\ cp = 92 -> <<92, 92>>
      [] ch[1] = "U" /\ cp = 8  -> <<92, 98>>
      [] ch[1] = "U" /\ cp = 9  -> <<92, 116>>
      [] ch[1] = "U" /\ cp = 10 -> <<92, 110>>
      [] ch[1] = "U" /\ cp = 12 -> <<92, 102>>
      [] ch[1] = "U" /\ cp = 13 -> <<92, 114>>
      [] ch[1] = "U" /\ cp < 32 /\ cp \notin {8, 9, 10, 12, 13} ->
            <<92, 117, 48, 48, HEX[(cp \div 16) + 1], HEX[(cp % 16) + 1]>>
      [] ch[1] = "U" /\ cp >= 32 /\ cp \notin {34, 92} -> Utf8Encode(cp)

RECURSIVE JsonStringBody(_)
JsonStringBody(text) ==
    IF text = <<>> THEN <<>> ELSE JsonEscape(Head(text)) \o JsonStringBody(Tail(text))

JsonQuoted(text) == <<34>> \o JsonStringBody(text) \o <<34>>

(* --------------------------- rows and blobs ---------------------------- *)

\* A field a row does not have.
ABSENT == <<"<absent>">>

\* A row of the parquet file as the packager uses it: the string columns
\* blob_id and src_encoding, and contents once process_row has set it.
Row(blob_id, src_encoding) ==
    [blob_id |-> blob_id, src_encoding |-> src_encoding, contents |-> ABSENT]

UTF8_NAME == <<"U","T","F","-","8">>

\* The kinds of row the runs are made of.
ROW_TEMPLATES == <<
    Row(<<"a">>, UTF8_NAME),                \* 1: blob "A"
    Row(<<"e">>, <<"u","t","f","8">>),  \* 2: blob "e-acute"
    Row(<<"g","o","n","e">>, UTF8_NAME),  \* 3: no blob file
    Row(<<"a">>, <<"F","O","O">>),          \* 4: unknown encoding
    Row(<<"x">>, UTF8_NAME),                \* 5: blob is not UTF-8
    Row(ABSENT, UTF8_NAME),                 \* 6: no blob_id
    Row(<<"a">>, ABSENT),                   \* 7: no src_encoding
    Row(<<"b","a","d">>, UTF8_NAME)       \* 8: blob file is not gzip
>>

GZ_SUFFIX == <<".","g","z">>

IoOk(bytes) == [ok |-> TRUE, bytes |-> bytes, err |-> ""]
IoErr(kind) == [ok |-> FALSE, bytes |-> <<>>, err |-> kind]

\* The blob directory: what opening and gunzipping each file gives.
read_gzip_file(path) ==
    CASE path = <<"a",".","g","z">> -> IoOk(<<65>>)
      [] path = <<"e",".","g","z">> -> IoOk(<<195, 169>>)
      [] path = <<"x",".","g","z">> -> IoOk(<<195>>)
      [] path = <<"b","a","d",".","g","z">> -> IoErr("InvalidInput")
      [] OTHER -> IoErr("NotFound")

(* ----------------------------- process_row ----------------------------- *)

RowOk(row)  == [panic |-> FALSE, why |-> "", row |-> row]
RowPanic(why, row) == [panic |-> TRUE, why |-> why, row |-> row]

\* process_row whose decode failure leaves the row without contents.
process_row_lenient(row, blob_loc) ==
    IF row.blob_id = ABSENT THEN RowPanic("no blob_id", row)
    ELSE LET blob_contents == read_gzip_file(row.blob_id \o GZ_SUFFIX) IN
         IF ~blob_contents.ok THEN RowPanic(blob_contents.err, row)
         ELSE IF row.src_encoding = ABSENT THEN RowOk(row)
         ELSE LET utf_str == decode_to_string(blob_contents.bytes, row.src_encoding) IN
              IF ~utf_str.ok THEN RowOk(row)
              ELSE RowOk([row EXCEPT !.contents = utf_str.text])

\* Every unwrap is a panic; blob_loc is the one blob directory of the run.
process_row(row, blob_loc) ==
    IF row.blob_id = ABSENT THEN RowPanic("no blob_id", row)
    ELSE LET blob_contents == read_gzip_file(row.blob_id \o GZ_SUFFIX) IN
         IF ~blob_contents.ok THEN RowPanic(blob_contents.err, row)
         ELSE IF row.src_encoding = ABSENT THEN RowPanic("no src_encoding", row)
         ELSE LET utf_str == decode_to_string(blob_contents.bytes, row.src_encoding) IN
              IF ~utf_str.ok THEN RowPanic(utf_str.err, row)
              ELSE RowOk([row EXCEPT !.contents = utf_str.text])

BLOB_LOC == "data"

\* JsonValue::to_string of a row: its fields in key order.
Member(key, str) == JsonQuoted(AsText(key)) \o <<58>> \o JsonQuoted(str)

RECURSIVE JoinMembers(_)
JoinMembers(members) ==
    IF members = <<>> THEN <<>>
    ELSE IF Len(members) = 1 THEN Head(members)
    ELSE Head(members) \o <<44>> \o JoinMembers(Tail(members))

ToJsonString(row) ==
    <<123>>
    \o JoinMembers(
         (IF row.blob_id = ABSENT THEN <<>>
          ELSE <<Member(<<"b","l","o","b","_","i","d">>, AsText(row.blob_id))>>)
         \o (IF row.contents = ABSENT THEN <<>>
             ELSE <<Member(<<"c","o","n","t","e","n","t","s">>, row.contents)>>)
         \o (IF row.src_encoding = ABSENT THEN <<>>
             ELSE <<Member(<<"s","r","c","_","e","n","c","o","d","i","n","g">>, AsText(row.src_encoding))>>))
    \o <<125>>

(* -------------------------------- gzip --------------------------------- *)

GZIP_HEADER == <<31, 139, 8, 0, 0, 0, 0, 0, 0, 0>>

\* A compressed buffer is a sequence of units: <<"byte", <<b>>>> is one byte,
\* <<"final", data>> and <<"more", data>> are a last and a not-last deflate
\* block holding data.
Units(bytes) == [i \in 1..Len(bytes) |-> <<"byte", <<bytes[i]>>>>]

\* A deflate stream: it ends with its final block.
Deflate(bytes) == << <<"final", bytes>> >>

\* GzEncoder::new, write_all(bytes), finish(): a whole gzip member, with a
\* ten-byte header and the eight-byte CRC-32 and length trailer.
GzEncoderFinish(bytes) ==
    Units(<<31, 139, 8, 0, 0, 0, 0, 0, 0, 255>>)
      \o Deflate(bytes)
      \o Units(ToLeBytes(HasherFinalize(HasherUpdate(HasherNew, bytes))))
      \o Units(SizeLeBytes(AsU32(UsizeOf(Len(bytes)))))

(* ---------------- the per-row closure (main.rs 196-216) ---------------- *)

\* output_str: the row's JSON line.
OutputStr(row) == ToJsonString(row) \o <<10>>

ChunkResult(compressed, crc, size) == [compressed |-> compressed, crc |-> crc, size |-> size]

NoResult == ChunkResult(<<>>, U32_ZERO, AsU32(UsizeOf(0)))

\* The ChunkResult of a line: the member's deflate stream, without its
\* ten-byte header and eight-byte trailer, the line's CRC and its length.
SliceMember(bytes, crc, compressed) ==
    [panic |-> FALSE, why |-> "",
     result |-> ChunkResult(SubSeq(compressed, 11, Len(compressed) - 8),
                            crc, AsU32(UsizeOf(Len(bytes))))]

\* Lines 199-215 on the bytes of output_str.
EncodeLine(bytes) ==
    SliceMember(bytes, HasherFinalize(HasherUpdate(HasherNew, bytes)), GzEncoderFinish(bytes))

\* The closure after process_row returned r, or panicked in it.
AfterProcessRow(r) ==
    IF r.panic THEN [panic |-> TRUE, why |-> r.why, result |-> NoResult]
    ELSE EncodeLine(OutputStr(r.row))

\* What the closure gives for a row: a panic, or the ChunkResult.
RowClosure(row) == AfterProcessRow(process_row(row, BLOB_LOC))

RECURSIVE ClosureTable(_, _)
ClosureTable(lo, hi) ==
    IF lo = hi THEN <<RowClosure(ROW_TEMPLATES[lo])>>
    ELSE LET mid == (lo + hi) \div 2 IN ClosureTable(lo, mid) \o ClosureTable(mid + 1, hi)

\* The closure is a function of the row alone: its value for each template.
CLOSURE == ClosureTable(1, Len(ROW_TEMPLATES))

(* ------------- assembling a chunk's artifact (main.rs 219-238) --------- *)

\* One iteration of the loop over processed_chunks.  total_crc is replaced
\* by a new hasher fed the four bytes of the row's CRC; total_size += size
\* overflows when the sum does not fit a u32.
AssembleStep(acc, chunk) ==
    LET sum == AddU32(acc.total_size, chunk.size) IN
    [final_output |-> acc.final_output \o chunk.compressed,
     total_crc    |-> HasherUpdate(HasherNew, ToLeBytes(chunk.crc)),
     total_size   |-> sum.val,
     overflow     |-> acc.overflow \/ sum.overflow]

\* Iterations lo..hi of that loop, the earlier half before the later one.
RECURSIVE AssembleRange(_, _, _, _)
AssembleRange(acc, processed_chunks, lo, hi) ==
    IF lo > hi THEN acc
    ELSE IF lo = hi THEN AssembleStep(acc, processed_chunks[lo])
    ELSE LET mid  == (lo + hi) \div 2
             left == AssembleRange(acc, processed_chunks, lo, mid)
         IN  IF left = left THEN AssembleRange(left, processed_chunks, mid + 1, hi) ELSE left

\* final_output and whether total_size overflowed on the way.
Assemble(processed_chunks) ==
    LET acc == AssembleRange([final_output |-> Units(GZIP_HEADER),
                              total_crc    |-> HasherNew,
                              total_size   |-> AsU32(UsizeOf(0)),
                              overflow     |-> FALSE],
                             processed_chunks, 1, Len(processed_chunks))
    IN  [final_output |-> acc.final_output
                            \o Units(ToLeBytes(HasherFinalize(acc.total_crc)))
                            \o Units(SizeLeBytes(acc.total_size)),
         overflow     |-> acc.overflow]

(* ----------------------- chunks and output files ----------------------- *)

\* rows.chunks(max_lines) has a next chunk while rows are left ...
HasNextChunkExact(offset, max_lines, len) == offset + max_lines <= len

HasNextChunk(offset, max_lines, len) == offset < len

\* ... and the chunk is the next max_lines rows, or all that are left.
ChunkEnd(offset, max_lines, len) ==
    IF offset + max_lines <= len THEN offset + max_lines ELSE len

DIGITS == <<"0", "1", "2", "3", "4", "5", "6", "7", "8", "9">>

RECURSIVE Decimal(_)
Decimal(n) == IF n < 10 THEN <<DIGITS[n + 1]>> ELSE Append(Decimal(n \div 10), DIGITS[(n % 10) + 1])

\* {:04}
Pad4(n) == LET d == Decimal(n) IN [i \in 1..(4 - Len(d)) |-> "0"] \o d

LANGUAGE == <<"L">>
PARQUET_NUM == <<"0", "0", "0", "0">>

\* A file name that leaves the chunk number out.
get_output_file_loc_unnumbered(language, parquet_num, jsonl_num) ==
    language \o <<"-">> \o parquet_num \o <<".", "j", "s", "o", "n", "l", ".", "g", "z">>

\* "{language}-{parquet_num}-{jsonl_num:04}.jsonl.gz"
get_output_file_loc(language, parquet_num, jsonl_num) ==
    language \o <<"-">> \o parquet_num \o <<"-">> \o Pad4(jsonl_num)
      \o <<".", "j", "s", "o", "n", "l", ".", "g", "z">>

\* File::create and write_all: the file holds content, whatever it held.
write_bytes_gzip(files, content, path) ==
    [p \in (DOMAIN files) \cup {path} |-> IF p = path THEN content ELSE files[p]]

(* ------------------------------- state --------------------------------- *)

VARIABLES
    \* one call of decode_to_string
    dec_name,       \* encoding_name
    dec_bytes,      \* bytes
    dec_out,        \* the value returned
    dec_pc,         \* "call" | "done"
    \* one call of load_parquet_as_json_parallel
    ld_schema,      \* the DataType of each column
    ld_nrows,       \* rows in the file
    ld_null_row,    \* the row whose cells are null (0: none)
    ld_parts,       \* what the closure returned for each batch
    ld_order,       \* the batches in the order their closures finished
    json_records,   \* the Vec returned
    ld_pc,          \* "par" | "done" | "panicked"
    \* one run of process_parquet_file2
    rows,           \* the rows loaded, each the number of its template
    max_lines,      \* --max-lines
    num_chunks,     \* rows.len().div_ceil(max_lines)
    offset,         \* rows the chunks iterator has handed out
    chunk_num,      \* chunk_num
    slots,          \* the closure's outcome for each row of the chunk in work
    done_order,     \* the rows of that chunk in the order their closures finished
    files,          \* the output directory: path -> bytes written
    taken,          \* the chunks handed out so far, as row positions
    abort_why,      \* the panic that ended the run
    pc,             \* "loop" | "par" | "done" | "aborted"
    \* the trailer size of one chunk, from the rows' line lengths
    sz_lens,        \* bytes.len() of each row of the chunk
    sz_checks,      \* the build checks integer overflow
    sz_out,         \* the four size bytes written, or a panic
    sz_pc           \* "call" | "done"

dec_vars == <<dec_name, dec_bytes, dec_out, dec_pc>>

ld_vars == <<ld_schema, ld_nrows, ld_null_row, ld_parts, ld_order, json_records, ld_pc>>

pipe_vars == <<rows, max_lines, num_chunks, offset, chunk_num, slots, done_order,
               files, taken, abort_why, pc>>

sz_vars == <<sz_lens, sz_checks, sz_out, sz_pc>>

vars == <<dec_vars, ld_vars, pipe_vars, sz_vars>>

NONE == [ok |-> FALSE, text |-> <<>>, err |-> "not called", decoder |-> "", subst |-> 0]

(* -------------------- one call of decode_to_string --------------------- *)

DECODE_ALPHABET == {65, 169, 195, 254, 255}

RECURSIVE SeqsUpTo(_, _)
SeqsUpTo(S, n) ==
    IF n = 0 THEN {<<>>}
    ELSE LET shorter == SeqsUpTo(S, n - 1)
         IN  shorter \cup {Append(s, x) : s \in {t \in shorter : Len(t) = n - 1}, x \in S}

\* name with its first k letters lowercased
LowerPrefix(name, k) ==
    [i \in 1..Len(name) |-> IF i <= k THEN LowerChar(name[i]) ELSE name[i]]

TABLE_NAMES == {IBM852, IBM855, IBM866}
                 \cup UNION {MATCH_ARMS[i].labels : i \in 1..Len(MATCH_ARMS)}

UNKNOWN_NAMES == {<<"F","O","O">>, <<"f","o","o">>, <<"L","A","T","I","N","1">>,
                  <<"U","T","F","-","3","2">>, <<"I","B","M","4","3","7">>, <<>>}

NameInputs ==
    UNKNOWN_NAMES
      \cup {ToLowercase(n) : n \in TABLE_NAMES}
      \cup {LowerPrefix(n, k) : n \in TABLE_NAMES, k \in 0..MaxLowered}

DecInit ==
    /\ dec_name \in NameInputs
    /\ dec_bytes \in SeqsUpTo(DECODE_ALPHABET, MaxBlobLen)
    /\ dec_out = NONE
    /\ dec_pc = "call"

DecIdle ==
    /\ dec_name = <<>>
    /\ dec_bytes = <<>>
    /\ dec_out = NONE
    /\ dec_pc = "idle"

DecodeCall ==
    /\ dec_pc = "call"
    /\ dec_out' = decode_to_string(dec_bytes, dec_name)
    /\ dec_pc' = "done"
    /\ UNCHANGED <<dec_name, dec_bytes>>

DecNext == DecodeCall /\ UNCHANGED <<ld_vars, pipe_vars, sz_vars>>

(* ------------------------------ C7 ------------------------------------- *)

\* The canonical spellings that dec_name matches when case is ignored.
MatchedNames == {n \in TABLE_NAMES : ToUppercase(n) = ToUppercase(dec_name)}

\* C7: decode_to_string matches encoding_name case-insensitively against the
\* whole table, the DOS code pages included: a name that equals a table name
\* up to case gets that name's result, and "BAD ENCODING" is returned only
\* for a name that matches no table name.
C7_CaseInsensitiveMatch ==
    dec_pc = "done" =>
        /\ \A n \in MatchedNames : dec_out = decode_to_string(dec_bytes, n)
        /\ (dec_out.err = "BAD ENCODING") => (MatchedNames = {})

(* ------------------------------ C8 ------------------------------------- *)

\* What the selected decoder reports for the input, when a decoder is selected.
RawDecode ==
    LET upper == ToUppercase(dec_name) IN
    EncodingDecode(MATCH_ARMS[ArmOf(upper)].encoding, dec_bytes)

UsesEncodingRs ==
    /\ dec_name \notin {IBM852, IBM855, IBM866}
    /\ \E i \in 1..Len(MATCH_ARMS) : ToUppercase(dec_name) \in MATCH_ARMS[i].labels

\* C8: decode_to_string is accept-or-reject: a returned string holds no
\* replacement made by the decoder, and an input for which the decoder
\* reports an error yields the decode failure, never a string.
C8_AcceptOrReject ==
    dec_pc = "done" =>
        /\ dec_out.ok => dec_out.subst = 0
        /\ UsesEncodingRs =>
              /\ RawDecode.had_errors => (~dec_out.ok /\ dec_out.err = "Failed to decode bytes")
              /\ ~RawDecode.had_errors => (dec_out.ok /\ dec_out.text = RawDecode.text)

C8_Witness ==
    /\ dec_pc = "done"
    /\ UsesEncodingRs
    /\ RawDecode.had_errors
    /\ RawDecode.subst > 0
    /\ ~dec_out.ok

(* ---------------- load_parquet_as_json_parallel: a run ------------------ *)

DivCeil(n, k) == (n + k - 1) \div k

\* The cell of global row g (from 1) in column c.
CellOf(g, c, null_row) ==
    [null  |-> g = null_row,
     v     |-> g * 10 + c,
     items |-> << [null |-> FALSE, v |-> g * 10 + c],
                  [null |-> TRUE,  v |-> 0],
                  [null |-> FALSE, v |-> g * 10 + c + 1] >>]

\* The record batches the reader yields: BatchSize rows each, the last
\* one possibly shorter.
BatchesOf(schema, nrows, null_row) ==
    [b \in 1..DivCeil(nrows, BatchSize) |->
        LET first == (b - 1) * BatchSize
            n     == IF first + BatchSize <= nrows THEN BatchSize ELSE nrows - first
        IN  [index    |-> b,
             num_rows |-> n,
             columns  |-> [c \in 1..Len(schema) |->
                             [data_type |-> schema[c],
                              array     |-> ArrayOf(schema[c]),
                              cells     |-> [r \in 1..n |-> CellOf(first + r, c, null_row)]]]]]

TODO == [st |-> "todo", rows |-> <<>>]

LoadInit ==
    /\ ld_schema \in (SeqsUpTo(DATA_TYPES, MaxCols) \ {<<>>})
    /\ ld_nrows \in 0..MaxLoadRows
    /\ ld_null_row \in 0..ld_nrows
    /\ ld_parts = [b \in 1..DivCeil(ld_nrows, BatchSize) |-> TODO]
    /\ ld_order = <<>>
    /\ json_records = <<>>
    /\ ld_pc = "par"

LoadIdle ==
    /\ ld_schema = <<>>
    /\ ld_nrows = 0
    /\ ld_null_row = 0
    /\ ld_parts = <<>>
    /\ ld_order = <<>>
    /\ json_records = <<>>
    /\ ld_pc = "idle"

\* A worker runs the closure on batch b.
LoadBatch(b) ==
    /\ ld_pc = "par"
    /\ ld_parts[b].st = "todo"
    /\ ld_parts' = [ld_parts EXCEPT
                      ![b] = BatchRows(BatchesOf(ld_schema, ld_nrows, ld_null_row)[b], 0)]
    /\ ld_order' = Append(ld_order, b)
    /\ UNCHANGED <<ld_schema, ld_nrows, ld_null_row, json_records, ld_pc>>

\* Every batch is done: collect() returns.
LoadCollect ==
    /\ ld_pc = "par"
    /\ \A b \in DOMAIN ld_parts : ld_parts[b].st = "done"
    /\ json_records' = CollectParts(ld_parts, ld_order)
    /\ ld_pc' = "done"
    /\ UNCHANGED <<ld_schema, ld_nrows, ld_null_row, ld_parts, ld_order>>

\* A closure panicked: the panic leaves load_parquet_as_json_parallel.
LoadPanic ==
    /\ ld_pc = "par"
    /\ \E b \in DOMAIN ld_parts : ld_parts[b].st = "panic"
    /\ ld_pc' = "panicked"
    /\ UNCHANGED <<ld_schema, ld_nrows, ld_null_row, ld_parts, ld_order, json_records>>

LoadNext ==
    /\ \/ \E b \in DOMAIN ld_parts : LoadBatch(b)
       \/ LoadCollect
       \/ LoadPanic
    /\ UNCHANGED <<dec_vars, pipe_vars, sz_vars>>

(* ------------------------------ C9 ------------------------------------- *)

SUPPORTED_TYPES == { <<"Utf8", "">>, <<"Int64", "">>, <<"Boolean", "">>,
                     <<"List", "Utf8">>, <<"Timestamp", "Nanosecond">> }

SupportedColumns == {ColName(c) : c \in {i \in 1..Len(ld_schema) : ld_schema[i] \in SUPPORTED_TYPES}}

\* C9: a column of an unsupported type (a timestamp that is not in
\* nanoseconds and a list of non-strings included) is left out of each row and
\* never fails the run: the load does not panic, and it returns every row
\* with exactly its supported columns.
C9_UnsupportedColumnOmitted ==
    /\ ld_pc # "panicked"
    /\ \A b \in DOMAIN ld_parts : ld_parts[b].st # "panic"
    /\ ld_pc = "done" =>
          /\ Len(json_records) = ld_nrows
          /\ \A i \in 1..Len(json_records) : DOMAIN json_records[i].obj = SupportedColumns

(* ------------------------------ C10 ------------------------------------ *)

LexLess(p, q) == p[1] < q[1] \/ (p[1] = q[1] /\ p[2] < q[2])

AllPairs == {<<b, r>> : b \in DOMAIN ld_parts, r \in 0..(BatchSize - 1)}

SourcePairs ==
    {p \in AllPairs : (p[1] - 1) * BatchSize + p[2] < ld_nrows}

\* C10: whatever order the workers finish in, the rows returned are in
\* (batch, row) order and every (batch, row) pair is there exactly once.
C10_RowOrderPreserved ==
    ld_pc = "done" =>
        /\ Len(json_records) = Cardinality(SourcePairs)
        /\ {json_records[i].src : i \in 1..Len(json_records)} = SourcePairs
        /\ \A i, j \in 1..Len(json_records) :
              (i < j) <=> LexLess(json_records[i].src, json_records[j].src)

C10_Witness ==
    /\ ld_pc = "done"
    /\ Len(ld_order) >= 2
    /\ ld_order[1] > ld_order[2]
    /\ Len(json_records) = ld_nrows
    /\ ld_nrows >= 3

(* ------------------- process_parquet_file2: a run ---------------------- *)

EmptyDir == [p \in {} |-> <<>>]

TodoSlot == [st |-> "todo", why |-> "", result |-> NoResult]

SlotOf(closed) ==
    [st |-> IF closed.panic THEN "panic" ELSE "ok", why |-> closed.why, result |-> closed.result]

PipeStart(rs, k) ==
    /\ rows = rs
    /\ max_lines = k
    /\ num_chunks = DivCeil(Len(rs), k)
    /\ offset = 0
    /\ chunk_num = 0
    /\ slots = <<>>
    /\ done_order = <<>>
    /\ files = EmptyDir
    /\ taken = <<>>
    /\ abort_why = ""
    /\ pc = "loop"

PipeInit ==
    \E rs \in SeqsUpTo(1..Len(ROW_TEMPLATES), MaxRows), k \in 1..MaxLines : PipeStart(rs, k)

\* Runs with long chunks, of half or all of the most rows: every row has
\* its blob, but for the first or the last one.
BulkInit ==
    \E n \in 1..MaxBulkRows, k \in {MaxBulkRows \div 2, MaxBulkRows} :
      \E missing \in SUBSET {1, n} :
        PipeStart([i \in 1..n |-> IF i \in missing THEN 3 ELSE 1], k)

PipeIdle ==
    /\ rows = <<>>
    /\ max_lines = 1
    /\ num_chunks = 0
    /\ offset = 0
    /\ chunk_num = 0
    /\ slots = <<>>
    /\ done_order = <<>>
    /\ files = EmptyDir
    /\ taken = <<>>
    /\ abort_why = ""
    /\ pc = "idle"

ChunkLen == ChunkEnd(offset, max_lines, Len(rows)) - offset

\* The positions in rows of the chunk the iterator hands out next.
ChunkPositions == [i \in 1..ChunkLen |-> offset + i]

\* The Vec the indexed parallel collect builds: the outcomes by row index.
CollectSlots(outcomes, order) == [i \in 1..Len(outcomes) |-> outcomes[i].result]

\* The chunk's rows are all processed: assemble, write, count (219-247).
\* A total_size overflow panics in a build that checks it and wraps in one
\* that does not.
WriteChunk(processed_chunks) ==
    LET a == Assemble(processed_chunks) IN
    /\ pc' \in (IF a.overflow THEN {"aborted", "loop"} ELSE {"loop"})
    /\ IF pc' = "loop"
       THEN /\ files' = write_bytes_gzip(files, a.final_output,
                                    get_output_file_loc(LANGUAGE, PARQUET_NUM, chunk_num))
            /\ chunk_num' = chunk_num + 1
            /\ abort_why' = abort_why
       ELSE /\ abort_why' = "attempt to add with overflow"
            /\ UNCHANGED <<files, chunk_num>>

\* The for loop takes the next chunk and hands its rows to the pool.
StartChunk ==
    /\ pc = "loop"
    /\ HasNextChunk(offset, max_lines, Len(rows))
    /\ slots' = [i \in 1..ChunkLen |-> TodoSlot]
    /\ done_order' = <<>>
    /\ taken' = Append(taken, ChunkPositions)
    /\ pc' = "par"
    /\ UNCHANGED <<rows, max_lines, num_chunks, offset, chunk_num, files, abort_why>>

\* A worker runs the closure on row i of the chunk.
RowStep(i) ==
    /\ pc = "par"
    /\ slots[i].st = "todo"
    /\ slots' = [slots EXCEPT ![i] = SlotOf(CLOSURE[rows[offset + i]])]
    /\ done_order' = Append(done_order, i)
    /\ UNCHANGED <<rows, max_lines, num_chunks, offset, chunk_num, files, taken, abort_why, pc>>

\* Every closure returned: collect, assemble and write the artifact.
FinishChunk ==
    /\ pc = "par"
    /\ \A i \in DOMAIN slots : slots[i].st = "ok"
    /\ WriteChunk(CollectSlots(slots, done_order))
    /\ offset' = offset + Len(slots)
    /\ slots' = <<>>
    /\ done_order' = <<>>
    /\ UNCHANGED <<rows, max_lines, num_chunks, taken>>

\* A closure panicked: the panic leaves the parallel iterator and main.
PropagatePanic ==
    /\ pc = "par"
    /\ \E i \in DOMAIN slots :
          /\ slots[i].st = "panic"
          /\ abort_why' = slots[i].why
    /\ pc' = "aborted"
    /\ UNCHANGED <<rows, max_lines, num_chunks, offset, chunk_num, slots, done_order, files, taken>>

\* No chunk is left: process_parquet_file2 returns Ok.
EndRun ==
    /\ pc = "loop"
    /\ ~HasNextChunk(offset, max_lines, Len(rows))
    /\ pc' = "done"
    /\ UNCHANGED <<rows, max_lines, num_chunks, offset, chunk_num, slots, done_order, files, taken, abort_why>>

\* One iteration of the for loop as a whole.
WholeChunk ==
    /\ pc = "loop"
    /\ HasNextChunk(offset, max_lines, Len(rows))
    /\ taken' = Append(taken, ChunkPositions)
    /\ LET outcomes == [i \in 1..ChunkLen |-> SlotOf(CLOSURE[rows[offset + i]])] IN
       IF \E i \in DOMAIN outcomes : outcomes[i].st = "panic"
       THEN /\ pc' = "aborted"
            /\ abort_why' \in {outcomes[i].why : i \in {j \in DOMAIN outcomes : outcomes[j].st = "panic"}}
            /\ UNCHANGED <<files, chunk_num, offset>>
       ELSE /\ WriteChunk(CollectSlots(outcomes, <<>>))
            /\ offset' = offset + ChunkLen
    /\ UNCHANGED <<rows, max_lines, num_chunks, slots, done_order>>

PipeNext ==
    /\ \/ StartChunk
       \/ \E i \in DOMAIN slots : RowStep(i)
       \/ FinishChunk
       \/ PropagatePanic
       \/ EndRun
    /\ UNCHANGED <<dec_vars, ld_vars, sz_vars>>

BulkNext ==
    /\ \/ WholeChunk
       \/ EndRun
    /\ UNCHANGED <<dec_vars, ld_vars, sz_vars>>

(* ------------------- the trailer size of one chunk --------------------- *)

\* Line lengths around 2^31 and 2^32.
LENGTHS == { [hi |-> 0, lo |-> 1], [hi |-> 0, lo |-> 52],
             [hi |-> 32768, lo |-> 0], [hi |-> 65535, lo |-> 65535],
             [hi |-> 65536, lo |-> 0], [hi |-> 65536, lo |-> 7] }

SizeInit ==
    /\ sz_lens \in (SeqsUpTo(LENGTHS, MaxSizeRows) \ {<<>>})
    /\ sz_checks \in BOOLEAN
    /\ sz_out = [panic |-> FALSE, bytes |-> <<>>]
    /\ sz_pc = "call"

SizeIdle ==
    /\ sz_lens = <<>>
    /\ sz_checks = FALSE
    /\ sz_out = [panic |-> FALSE, bytes |-> <<>>]
    /\ sz_pc = "idle"

\* The assembly loop on rows of the given line lengths: the size bytes it
\* ends the artifact with.
SizeCall ==
    /\ sz_pc = "call"
    /\ LET processed_chunks ==
              [i \in 1..Len(sz_lens) |-> ChunkResult(<<>>, U32_ZERO, AsU32(sz_lens[i]))]
           a == Assemble(processed_chunks)
           n == Len(a.final_output)
       IN  sz_out' = IF a.overflow /\ sz_checks
                     THEN [panic |-> TRUE, bytes |-> <<>>]
                     ELSE [panic |-> FALSE,
                           bytes |-> [i \in 1..4 |-> a.final_output[n - 4 + i][2][1]]]
    /\ sz_pc' = "done"
    /\ UNCHANGED <<sz_lens, sz_checks>>

SizeNext == SizeCall /\ UNCHANGED <<dec_vars, ld_vars, pipe_vars>>

(* ------------------- properties of process_parquet_file2 --------------- *)

\* The rows of chunk c (counted from 1), as template numbers.
ChunkRows(c) == [i \in 1..Len(taken[c]) |-> rows[taken[c][i]]]

\* The artifact path of chunk c.
ArtifactPath(c) == get_output_file_loc(LANGUAGE, PARQUET_NUM, c - 1)

Written(c) == ArtifactPath(c) \in DOMAIN files

\* The row references a blob file that does not exist.
MissingBlob(row) ==
    /\ row.blob_id # ABSENT
    /\ read_gzip_file(row.blob_id \o GZ_SUFFIX).err = "NotFound"

MissingCount(c) ==
    Cardinality({i \in 1..Len(taken[c]) : MissingBlob(ROW_TEMPLATES[ChunkRows(c)[i]])})

\* C1: a chunk of n rows with m missing blobs aborts the run if and only if
\* m / n > 0.01; with m / n <= 0.01 its artifact is written and the run goes
\* on to the next chunk.  Stated on runs whose only failures are missing
\* blobs: the run is aborted only in a chunk with m * 100 > n, and a chunk
\* with m * 100 > n is never written.
C1_MissingThreshold ==
    /\ pc = "aborted" =>
          MissingCount(Len(taken)) * 100 > Len(taken[Len(taken)])
    /\ \A c \in 1..Len(taken) :
          Written(c) => MissingCount(c) * 100 <= Len(taken[c])

\* The serialized line of each kind of row that process_row accepts.
LINES ==
    [t \in 1..Len(ROW_TEMPLATES) |->
        LET r == process_row(ROW_TEMPLATES[t], BLOB_LOC) IN
        IF r.panic THEN <<>> ELSE OutputStr(r.row)]

RECURSIVE ConcatLines(_, _)
ConcatLines(ts, i) ==
    IF i > Len(ts) THEN <<>> ELSE LINES[ts[i]] \o ConcatLines(ts, i + 1)

\* The concatenation of the lines of chunk c's rows, in row order.
ExpectedLines(c) == ConcatLines(ChunkRows(c), 1)

\* The data of the deflate blocks from unit i up to the first final block,
\* and the unit after it; no final block, or a unit that is no block, is a
\* corrupt stream.
RECURSIVE Inflate(_, _)
Inflate(file, i) ==
    IF i > Len(file) \/ file[i][1] = "byte" THEN [ok |-> FALSE, data |-> <<>>, next |-> i]
    ELSE IF file[i][1] = "final" THEN [ok |-> TRUE, data |-> file[i][2], next |-> i + 1]
    ELSE LET rest == Inflate(file, i + 1)
         IN  [ok |-> rest.ok, data |-> file[i][2] \o rest.data, next |-> rest.next]

\* The eight units from i on are bytes: the trailer can be read as written.
TrailerAt(file, i) ==
    /\ i + 7 <= Len(file)
    /\ \A j \in i..(i + 7) : file[j][1] = "byte"

\* A single-pass gzip decoder on a file: the header, one deflate stream up
\* to its final block, then the CRC-32 and the length of what it inflated.
GzDecode(file) ==
    IF Len(file) < 10 \/ SubSeq(file, 1, 10) # Units(GZIP_HEADER)
    THEN [ok |-> FALSE, data |-> <<>>]
    ELSE LET body == Inflate(file, 11) IN
         IF ~body.ok \/ ~TrailerAt(file, body.next) THEN [ok |-> FALSE, data |-> body.data]
         ELSE [ok |-> /\ [j \in 1..4 |-> file[body.next + j - 1][2][1]]
                           = ToLeBytes(HasherFinalize(HasherUpdate(HasherNew, body.data)))
                      /\ [j \in 1..4 |-> file[body.next + j + 3][2][1]]
                           = SizeLeBytes(AsU32(UsizeOf(Len(body.data)))),
               data |-> body.data]

\* C2: decoding a written artifact in a single pass succeeds and yields the
\* concatenation of the lines of the chunk's rows, in row order.
C2_SinglePassRoundTrip ==
    \A c \in 1..Len(taken) :
        Written(c) =>
            LET d == GzDecode(files[ArtifactPath(c)]) IN
            d.ok /\ d.data = ExpectedLines(c)

\* The four checksum bytes of an artifact's trailer.
TrailerCrc(file) == [j \in 1..4 |-> file[Len(file) - 8 + j][2][1]]

\* C3: the checksum in a written artifact's trailer is the CRC-32 of the
\* concatenation of the uncompressed lines of the chunk's rows.
C3_TrailerCrcOfConcatenation ==
    \A c \in 1..Len(taken) :
        Written(c) =>
            TrailerCrc(files[ArtifactPath(c)])
              = ToLeBytes(HasherFinalize(HasherUpdate(HasherNew, ExpectedLines(c))))

RECURSIVE Flatten(_, _)
Flatten(chunks, i) ==
    IF i > Len(chunks) THEN <<>> ELSE chunks[i] \o Flatten(chunks, i + 1)

\* count = ceil(n / k)
IsCeil(count, n, k) == count * k >= n /\ (count - 1) * k < n

\* C4: the chunks handed out are the rows in order, each row once; every
\* chunk but the last has max_lines rows and the last has 1..max_lines; a
\* run that ends has made ceil(N / max_lines) chunks and numbered as many.
C4_ChunkPartition ==
    LET flat == Flatten(taken, 1) IN
    /\ flat = [i \in 1..Len(flat) |-> i]
    /\ Len(flat) <= Len(rows)
    /\ \A c \in 1..Len(taken) :
          /\ Len(taken[c]) \in 1..max_lines
          /\ c < Len(taken) => Len(taken[c]) = max_lines
    /\ pc = "done" =>
          /\ [i \in 1..Len(flat) |-> rows[flat[i]]] = rows
          /\ IsCeil(Len(taken), Len(rows), max_lines)
          /\ chunk_num = Len(taken)
          /\ num_chunks = Len(taken)

\* A run that ended after several chunks, the last one short.
C4_Witness ==
    /\ pc = "done"
    /\ Len(taken) >= 2
    /\ Len(taken[Len(taken)]) < max_lines

\* A failure of the row other than a missing blob file: no blob_id, a blob
\* file that cannot be read, no src_encoding, an encoding decode_to_string
\* does not take or bytes it cannot decode.
OtherFailure(row) ==
    \/ row.blob_id = ABSENT
    \/ /\ ~MissingBlob(row)
       /\ LET blob == read_gzip_file(row.blob_id \o GZ_SUFFIX) IN
          \/ ~blob.ok
          \/ row.src_encoding = ABSENT
          \/ ~decode_to_string(blob.bytes, row.src_encoding).ok

FAILING == {t \in 1..Len(ROW_TEMPLATES) : OtherFailure(ROW_TEMPLATES[t])}

HasOtherFailure(c) == \E i \in 1..Len(taken[c]) : ChunkRows(c)[i] \in FAILING

\* C5: a chunk holding a row that fails otherwise than by a missing blob is
\* the last chunk taken, its artifact is never written, and the run neither
\* goes on to a next chunk nor ends normally.
C5_OtherFailureAborts ==
    \A c \in 1..Len(taken) :
        HasOtherFailure(c) =>
            /\ ~Written(c)
            /\ c = Len(taken)
            /\ chunk_num = c - 1
            /\ pc \in {"par", "aborted"}

\* A run aborted by such a row in a later chunk, with rows still left.
C5_Witness ==
    /\ pc = "aborted"
    /\ Len(taken) >= 2
    /\ HasOtherFailure(Len(taken))
    /\ MissingCount(Len(taken)) = 0
    /\ Written(1)
    /\ offset + Len(slots) < Len(rows)

(* ------------------------- the size in the trailer --------------------- *)

RECURSIVE SumHi(_, _)
SumHi(lens, i) == IF i > Len(lens) THEN 0 ELSE lens[i].hi + SumHi(lens, i + 1)

RECURSIVE SumLo(_, _)
SumLo(lens, i) == IF i > Len(lens) THEN 0 ELSE lens[i].lo + SumLo(lens, i + 1)

\* The little-endian bytes of the sum of the lengths modulo 2^32.
SumModBytes(lens) ==
    LET lo == SumLo(lens, 1)
        hi == (SumHi(lens, 1) + (lo \div 65536)) % 65536
    IN  <<(lo % 65536) % 256, (lo % 65536) \div 256, hi % 256, hi \div 256>>

\* C6: the size written into the trailer is the sum of the lines' lengths
\* modulo 2^32, and computing it does not fail.
C6_SizeWrapsModulo ==
    sz_pc = "done" =>
        /\ ~sz_out.panic
        /\ sz_out.bytes = SumModBytes(sz_lens)

(* ------------------------- chunks as a boundary ------------------------ *)

\* The rows of the first n chunks taken.
RowsOfChunks(n) == Len(Flatten(SubSeq(taken, 1, n), 1))

\* One step of a run keeps the chunks apart: a row is processed only in the
\* chunk taken last, with every earlier chunk written and counted; a chunk
\* is taken only with every chunk before it written and no row in work; a
\* write adds the artifact of the chunk in work, all of whose rows are
\* resolved, and changes no other file; a step that aborts leaves on disk
\* the artifacts of the chunks before the one in work, and nothing else.
ChunkBoundaryStep ==
    /\ (slots' # slots /\ \E i \in DOMAIN slots' : slots'[i].st # "todo") =>
          /\ taken' = taken
          /\ \A c \in 1..(Len(taken) - 1) : Written(c)
          /\ offset = RowsOfChunks(Len(taken) - 1)
    /\ taken' # taken =>
          /\ \A c \in 1..Len(taken) : Written(c)
          /\ offset = RowsOfChunks(Len(taken))
          /\ slots = <<>>
    /\ files' # files =>
          /\ \A p \in DOMAIN files : p \in DOMAIN files' /\ files'[p] = files[p]
          /\ ArtifactPath(Len(taken)) \notin DOMAIN files
          /\ DOMAIN files' = DOMAIN files \cup {ArtifactPath(Len(taken))}
          /\ \A i \in DOMAIN slots : slots[i].st = "ok"
    /\ pc' = "aborted" =>
          DOMAIN files' = {ArtifactPath(c) : c \in 1..(Len(taken') - 1)}

Init == PipeInit /\ DecIdle /\ LoadIdle /\ SizeIdle
Next == PipeNext
Spec == Init /\ [][Next]_vars

\* process_parquet_file2 on long chunks, a chunk at a time.
InitBulk == BulkInit /\ DecIdle /\ LoadIdle /\ SizeIdle
SpecBulk == InitBulk /\ [][BulkNext]_vars

\* decode_to_string on one input.
InitDecode == DecInit /\ LoadIdle /\ PipeIdle /\ SizeIdle
SpecDecode == InitDecode /\ [][DecNext]_vars

\* load_parquet_as_json_parallel on one file.
InitLoad == LoadInit /\ DecIdle /\ PipeIdle /\ SizeIdle
SpecLoad == InitLoad /\ [][LoadNext]_vars

\* The size written for one chunk.
InitSize == SizeInit /\ DecIdle /\ LoadIdle /\ PipeIdle
SpecSize == InitSize /\ [][SizeNext]_vars
====
